---- MODULE Spec2Model ----
(***************************************************************************)
(* Model of the Puppeteer audit service: an Express app that audits one    *)
(* page per POST /audit request on a browser shared by all requests.       *)
(*                                                                         *)
(* Strings are sequences of tokens, so that trim, the scheme regex,        *)
(* startsWith and includes are computed the way the code computes them.    *)
(* An async handler is cut at its awaits: every action is one synchronous  *)
(* run of the code between two awaits.                                     *)
(***************************************************************************)
EXTENDS Integers, Sequences, FiniteSets, TLC

VARIABLES
    browser,            \* the module-level handle: "unset" until launch resolves
    launch,             \* puppeteer.launch(): "pending", "resolved", "rejected"
    proc,               \* "running", "exit0", "exit1"
    browserCloseCalls,  \* number of browser.close() calls made so far
    sigAwait,           \* signal handlers suspended at `await browser.close()`
    sigCount,           \* signals delivered so far
    req,                \* per request: the locals of the POST /audit handler
    extract,            \* the email extraction of lines 140-142 on one markup
    timing,             \* the clock and the timing of lines 117-155
    router,             \* the middleware chain on one request after another
    wrapper,            \* dashboard: one function returned by debounce()
    dom                 \* dashboard: the notifications of the document

vars == <<browser, launch, proc, browserCloseCalls, sigAwait, sigCount, req,
          extract, timing, router, wrapper, dom>>

----------------------------------------------------------------------------
(* Bounds *)

MaxReq == 2        \* concurrent requests
MaxSignals == 2    \* termination signals delivered
MaxLen == 3        \* tokens in a submitted url
MaxCodes == 2      \* tokens in the message of a navigation error
MaxContent == 6    \* tokens in the markup of a page
MaxOver == 2       \* requests counted beyond the limit of the limiter
MaxMs == 30        \* milliseconds on the clock
MaxWait == 2       \* the wait of a debounced function, in ticks
MaxCalls == 3      \* calls of a debounced function
MaxTime == 6       \* ticks of the dashboard's clock
MaxNotes == 3      \* notifications shown

Requests == 1..MaxReq

----------------------------------------------------------------------------
(* Strings *)

SP == " "

Includes(s, sub) ==
    \E i \in 1..(Len(s) - Len(sub) + 1) : SubSeq(s, i, i + Len(sub) - 1) = sub

StartsWith(s, p) ==
    Len(s) >= Len(p) /\ SubSeq(s, 1, Len(p)) = p

RECURSIVE TrimStart(_)
TrimStart(s) ==
    IF s # <<>> /\ Head(s) = SP THEN TrimStart(Tail(s)) ELSE s

RECURSIVE TrimEnd(_)
TrimEnd(s) ==
    IF s # <<>> /\ s[Len(s)] = SP THEN TrimEnd(SubSeq(s, 1, Len(s) - 1)) ELSE s

Trim(s) == TrimEnd(TrimStart(s))

\* the prefixes /^https?:\/\//i accepts, in the case variants the model uses
SchemeTokens == {"http://", "https://", "HTTP://", "HTTPS://"}

MatchesScheme(s) == s # <<>> /\ Head(s) \in SchemeTokens

\* lines 85-88 with the prefix added before the url is trimmed
normalizedUrl_PrefixFirst(url) ==
    IF ~MatchesScheme(url) THEN Trim(<<"https://">> \o url) ELSE Trim(url)

normalizedUrl(url) ==
    LET t == Trim(url)
    IN  IF ~MatchesScheme(t) THEN <<"https://">> \o t ELSE t

RECURSIVE SkipSlashes(_)
SkipSlashes(s) ==
    IF s # <<>> /\ Head(s) = "/" THEN SkipSlashes(Tail(s)) ELSE s

\* the host ends at the first "/" or ":" (a scheme token contributes its
\* letters to the host and then ends it); a space in the host is forbidden
RECURSIVE HostValid(_, _)
HostValid(s, seen) ==
    IF s = <<>> THEN seen
    ELSE IF Head(s) = "/" THEN seen
    ELSE IF Head(s) \in SchemeTokens THEN TRUE
    ELSE IF Head(s) = SP THEN FALSE
    ELSE HostValid(Tail(s), TRUE)

\* new URL(s) for a string that begins with an http(s) scheme
URLParses(s) ==
    /\ MatchesScheme(s)
    /\ HostValid(SkipSlashes(Tail(s)), FALSE)

----------------------------------------------------------------------------
(* Request bodies *)

Body(type, str, num) == [type |-> type, str |-> str, num |-> num]
Undefined == Body("undefined", <<>>, 0)
Num(n) == Body("number", <<>>, n)
Str(s) == Body("string", s, 0)

Falsy(b) ==
    \/ b.type = "undefined"
    \/ b.type = "number" /\ b.num = 0
    \/ b.type = "string" /\ b.str = <<>>

MsgRequired == "URL is required and must be a string"
MsgInvalid == "Invalid URL format"

\* the check of line 77 without its `!url` half
Validate_TypeOnly(b) ==
    IF b.type # "string" THEN "required"
    ELSE IF ~URLParses(normalizedUrl(b.str)) THEN "invalid"
    ELSE "ok"

\* which of the two early returns, if any, the handler takes
Validate(b) ==
    IF Falsy(b) \/ b.type # "string" THEN "required"
    ELSE IF ~URLParses(normalizedUrl(b.str)) THEN "invalid"
    ELSE "ok"

----------------------------------------------------------------------------
(* Error values *)

Err(name, message) ==
    [kind |-> "error", name |-> name, hasMessage |-> TRUE, message |-> message]
\* a thrown primitive or plain object: it has neither name nor message
ThrownString == [kind |-> "string", name |-> "", hasMessage |-> FALSE, message |-> <<>>]
\* a rejection with null or undefined
ThrownNull == [kind |-> "null", name |-> "", hasMessage |-> FALSE, message |-> <<>>]
NoError == [kind |-> "none", name |-> "", hasMessage |-> FALSE, message |-> <<>>]

TimeoutError == Err("TimeoutError", <<"Navigation timeout of 30000 ms exceeded">>)
\* browser.newPage() on an undefined handle
TypeError == Err("TypeError", <<"Cannot read properties of undefined">>)
ProtocolError == Err("Error", <<"Protocol error">>)

MsgUnknown == "Unknown error during audit"
MsgTimeout == "Page load timed out after 30 seconds"
MsgDomain == "Domain does not exist"
MsgRefused == "Connection refused by server"
MsgCert == "SSL certificate error"
MsgBlocked == "Request blocked by client"

\* the result of evaluating error.message.includes(..) on a value without
\* a message
Throws == "\\throws"

\* the chain of lines 175-185 with the certificate test moved up
errorMessage_CertFirst(error) ==
    IF error.name = "TimeoutError" THEN MsgTimeout
    ELSE IF ~error.hasMessage THEN Throws
    ELSE IF Includes(error.message, <<"net::ERR_NAME_NOT_RESOLVED">>) THEN MsgDomain
    ELSE IF Includes(error.message, <<"net::ERR_CERT">>) THEN MsgCert
    ELSE IF Includes(error.message, <<"net::ERR_CONNECTION_REFUSED">>) THEN MsgRefused
    ELSE IF Includes(error.message, <<"net::ERR_BLOCKED_BY_CLIENT">>) THEN MsgBlocked
    ELSE MsgUnknown

errorMessage(error) ==
    IF error.name = "TimeoutError" THEN MsgTimeout
    ELSE IF ~error.hasMessage THEN Throws
    ELSE IF Includes(error.message, <<"net::ERR_NAME_NOT_RESOLVED">>) THEN MsgDomain
    ELSE IF Includes(error.message, <<"net::ERR_CONNECTION_REFUSED">>) THEN MsgRefused
    ELSE IF Includes(error.message, <<"net::ERR_CERT">>) THEN MsgCert
    ELSE IF Includes(error.message, <<"net::ERR_BLOCKED_BY_CLIENT">>) THEN MsgBlocked
    ELSE MsgUnknown

----------------------------------------------------------------------------
(* The locals of one POST /audit invocation *)

NullText == <<>>

IdleReq ==
    [pc |-> "idle",            \* the await the handler is suspended at
     body |-> Undefined,       \* req.body.url
     url |-> <<>>,             \* normalizedUrl
     acq |-> "none",           \* the browser handle as line 102 found it
     page |-> "undefined",     \* the local `page`
     closeCalls |-> 0,         \* page.close() calls made
     closed |-> FALSE,         \* a page.close() has resolved
     listener |-> FALSE,       \* the requestfailed listener is registered
     nav |-> "none",           \* page.goto: "held", "loading", "resolved", "failed"
     sslError |-> NullText,
     response |-> "none",      \* what page.goto resolved with
     sslErrorRead |-> NullText,\* sslError as line 130 read it
     steps |-> <<>>,           \* the operations called so far, in order
     sslStatus |-> FALSE,
     extracted |-> FALSE,      \* content and h1 count were read
     error |-> NoError,        \* the value the catch block caught
     responses |-> 0,          \* res.status(..).json(..) calls
     status |-> 0,
     success |-> FALSE,
     errorMessage |-> "",
     ssl |-> FALSE]            \* data.ssl of the success response

\* res.status(status).json({success, error}) followed by return
Respond(q, status, success, msg) ==
    [q EXCEPT !.pc = "done", !.responses = @ + 1, !.status = status,
              !.success = success, !.errorMessage = msg,
              !.steps = Append(@, "respond")]

\* lines 173-190: classify the caught error and answer 200; evaluating
\* .includes on a missing message throws out of the handler instead
ClassifyAndRespond(q) ==
    IF errorMessage(q.error) = Throws
    THEN [q EXCEPT !.pc = "rejected"]
    ELSE Respond(q, 200, FALSE, errorMessage(q.error))

\* lines 161-171, up to the await of the cleanup close: reading
\* error.message of null or undefined throws before anything else is done
CatchBlock(q, e) ==
    IF e.kind = "null"
    THEN [q EXCEPT !.pc = "rejected", !.error = e]
    ELSE IF q.page # "undefined"
    THEN [q EXCEPT !.pc = "catchClose", !.error = e, !.closeCalls = @ + 1,
                   !.steps = Append(@, "close")]
    ELSE ClassifyAndRespond([q EXCEPT !.error = e])

\* lines 124-137
isSSL(url) == StartsWith(url, <<"https://">>)

\* the determination without the scheme test
sslStatus_DetailsOnly(url, sslError, response) ==
    IF sslError = NullText
    THEN IF response \in {"null", "detailsThrow"} THEN TRUE
         ELSE response = "details"
    ELSE isSSL(url)

\* the determination with a failed read of the details counted as invalid
sslStatus_FailClosed(url, sslError, response) ==
    IF isSSL(url) /\ sslError = NullText
    THEN response = "details"
    ELSE isSSL(url)

\* the determination with a latched failure signal counted as invalid
sslStatus_LatchFails(url, sslError, response) ==
    IF isSSL(url) /\ sslError = NullText
    THEN IF response \in {"null", "detailsThrow"} THEN TRUE
         ELSE response = "details"
    ELSE FALSE

sslStatus(url, sslError, response) ==
    IF isSSL(url) /\ sslError = NullText
    THEN IF response \in {"null", "detailsThrow"} THEN TRUE
         ELSE response = "details"
    ELSE isSSL(url)

\* the handler with the page requested before the url is validated
Entry_AcquireFirst(q, b, handle) ==
    LET v == Validate(b)
        q1 == [q EXCEPT !.body = b, !.acq = handle]
        q2 == [q1 EXCEPT !.url = normalizedUrl(b.str)]
    IN  IF v = "required" THEN Respond(q1, 400, FALSE, MsgRequired)
        ELSE IF v = "invalid" THEN Respond(q2, 400, FALSE, MsgInvalid)
        ELSE IF handle = "unset" THEN CatchBlock(q2, TypeError)
        ELSE [q2 EXCEPT !.pc = "newPage", !.steps = Append(@, "newPage")]

\* lines 74-102: the synchronous run from entry to the first await
Entry(q, b, handle) ==
    LET v == Validate(b)
        q1 == [q EXCEPT !.body = b]
        q2 == [q1 EXCEPT !.url = normalizedUrl(b.str)]
    IN  IF v = "required" THEN Respond(q1, 400, FALSE, MsgRequired)
        ELSE IF v = "invalid" THEN Respond(q2, 400, FALSE, MsgInvalid)
        ELSE IF handle = "unset"
        THEN CatchBlock([q2 EXCEPT !.acq = handle], TypeError)
        ELSE [q2 EXCEPT !.acq = handle, !.pc = "newPage",
                        !.steps = Append(@, "newPage")]

----------------------------------------------------------------------------
(* Email extraction *)

Addresses == {"a@b.com", "c@d.org", "e@f.net", "g@h.io", "i@j.co", "k@l.me"}

\* the tokens a markup is made of: addresses the pattern of line 141
\* matches, and text it does not match
ContentTokens == Addresses \cup {"<p>"}

IsEmail(token) == token \in Addresses

\* content.match(emailRegex) || []
match(content) == SelectSeq(content, IsEmail)

\* [...new Set(s)]: a Set keeps the insertion order of first occurrences
RECURSIVE Dedupe(_)
Dedupe(s) ==
    IF s = <<>> THEN <<>>
    ELSE LET init == Dedupe(SubSeq(s, 1, Len(s) - 1))
             last == s[Len(s)]
         IN  IF \E i \in 1..Len(init) : init[i] = last THEN init
             ELSE Append(init, last)

EmailLimit == 5

\* s.slice(0, n)
Slice(s, n) == SubSeq(s, 1, IF Len(s) < n THEN Len(s) ELSE n)

\* line 142 with the limit applied before the duplicates are removed
emails_SliceFirst(content) == Dedupe(Slice(match(content), EmailLimit))

\* line 142
emails(content) == Slice(Dedupe(match(content)), EmailLimit)

IdleExtract == [pc |-> "idle", content |-> <<>>, emails |-> <<>>]

----------------------------------------------------------------------------
(* Timing and routing: initial values *)

\* now is the system clock in milliseconds, load_time is kept in hundredths
\* of a second
IdleTiming == [pc |-> "idle", now |-> 0, start |-> 0, loadTime |-> 0, load_time |-> 0]

Abs(n) == IF n < 0 THEN 0 - n ELSE n

\* line 155: parseFloat((loadTime / 1000).toFixed(2)), in hundredths.
\* toFixed rounds the magnitude to the nearest hundredth and keeps the sign;
\* a value written with a final 5 in the thousandths is not exactly
\* representable in binary, so it goes to either neighbour depending on the
\* value.
toFixed(loadTime) ==
    LET a == Abs(loadTime)
        q == a \div 10
        n == IF a % 10 < 5 THEN {q}
             ELSE IF a % 10 > 5 THEN {q + 1}
             ELSE {q, q + 1}
    IN  IF loadTime < 0 THEN {0 - k : k \in n} ELSE n

IdleRouter ==
    [hits |-> 0, method |-> "", path |-> "", status |-> 0,
     success |-> "absent", error |-> "", by |-> ""]

----------------------------------------------------------------------------
(* Middleware chain and routes, lines 9-21, 68-73 and 196-210 *)

Methods == {"GET", "HEAD", "POST", "PUT", "PATCH", "DELETE", "OPTIONS"}
Paths == {"/audit", "/audit/x", "/health", "/other"}

\* line 18
RateMax == 100

MsgRateLimit == "Rate limit exceeded"
MsgMethod == "Method not allowed. Use POST."
MsgNotFound == "Endpoint not found"

\* line 21: app.use('/audit', ..) matches the path and everything below it
Limited(path) == path \in {"/audit", "/audit/x"}

\* the limiter counts the request before it decides
Counted(hits, method, path) ==
    IF method # "OPTIONS" /\ Limited(path) THEN hits + 1 ELSE hits

Answer(status, success, error, by) ==
    [status |-> status, success |-> success, error |-> error, by |-> by]

\* the chain without the all-methods route of lines 196-203
Route_NoAllMethods(hits, method, path) ==
    IF method = "OPTIONS" THEN Answer(204, "absent", "", "cors")
    ELSE IF Limited(path) /\ Counted(hits, method, path) > RateMax
    THEN Answer(429, "absent", MsgRateLimit, "limiter")
    ELSE IF path = "/health" /\ method \in {"GET", "HEAD"}
    THEN Answer(200, "absent", "", "health")
    ELSE IF path = "/audit" /\ method = "POST"
    THEN Answer(0, "absent", "", "audit")
    ELSE Answer(404, "absent", MsgNotFound, "notFound")

\* the handler that answers a request, in the order of registration: cors
\* (line 13) ends every OPTIONS request with 204, the limiter (line 21)
\* answers 429 beyond RateMax counted requests, then the routes of lines 68,
\* 73, 196 and 206.  Status 0 stands for the answer of the audit handler.
Route(hits, method, path) ==
    IF method = "OPTIONS" THEN Answer(204, "absent", "", "cors")
    ELSE IF Limited(path) /\ Counted(hits, method, path) > RateMax
    THEN Answer(429, "absent", MsgRateLimit, "limiter")
    ELSE IF path = "/health" /\ method \in {"GET", "HEAD"}
    THEN Answer(200, "absent", "", "health")
    ELSE IF path = "/audit" /\ method = "POST"
    THEN Answer(0, "absent", "", "audit")
    ELSE IF path = "/audit"
    THEN Answer(405, "false", MsgMethod, "allMethods")
    ELSE Answer(404, "absent", MsgNotFound, "notFound")

----------------------------------------------------------------------------
(* Input domains *)

\* the tokens a submitted url is made of
\* Dashboard, src/backend/static/js/app.js: debounce (lines 345-355)

\* a wrapper nobody has called: `timeout` is undefined (0), no timer is set
IdleWrapper ==
    [wait |-> 1, now |-> 0, timeout |-> 0, timers |-> {}, ids |-> 0,
     calls |-> <<>>, invoked |-> <<>>]

\* the events an input listener is called with
ArgValues == {"input:status", "input:industry"}

clearTimeout(timers, id) == {t \in timers : t.id # id}

\* the wrapper setting a new timer without clearing the pending one
executedFunction_NoClear(w, args) ==
    LET id == w.ids + 1
    IN  [w EXCEPT !.timers = @ \cup {[id |-> id, due |-> w.now + w.wait, args |-> args]},
                  !.timeout = id, !.ids = id,
                  !.calls = Append(@, [at |-> w.now, args |-> args])]

\* lines 347-353: clearTimeout(timeout); timeout = setTimeout(later, wait)
executedFunction(w, args) ==
    LET id == w.ids + 1
    IN  [w EXCEPT !.timers = clearTimeout(@, w.timeout)
                               \cup {[id |-> id, due |-> w.now + w.wait, args |-> args]},
                  !.timeout = id, !.ids = id,
                  !.calls = Append(@, [at |-> w.now, args |-> args])]

\* lines 348-351, run by timer t: clearTimeout(timeout); func(...args)
later(w, t) ==
    [w EXCEPT !.timers = clearTimeout(@ \ {t}, w.timeout),
              !.invoked = Append(@, [at |-> w.now, args |-> t.args])]

\* Dashboard: showNotification (app.js lines 42-71, part_001 lines 42-68)

Files == {"app.js", "part_001"}
Types == {"info", "success", "error"}

\* attached: the notification elements of the document, in document order;
\* classed: the elements that carry the class 'notification'
IdleDom ==
    [file |-> "app.js", attached |-> <<>>, classed |-> {}, timers |-> {},
     types |-> <<>>]

\* document.querySelector('.notification'): the first match in document
\* order, 0 for null
querySelector(d) ==
    LET m == SelectSeq(d.attached, LAMBDA n : n \in d.classed)
    IN  IF m = <<>> THEN 0 ELSE Head(m)

remove(attached, n) == SelectSeq(attached, LAMBDA k : k # n)

\* app.js assigns className (line 48); part_001 does not
showNotification(d, type) ==
    LET n == Len(d.types) + 1
    IN  [d EXCEPT !.attached = Append(remove(@, querySelector(d)), n),
                  !.classed = IF d.file = "app.js" THEN @ \cup {n} ELSE @,
                  !.timers = @ \cup {n},
                  !.types = Append(@, type)]

\* the callback of setTimeout: if (notification.parentNode) notification.remove()
autoRemove(d, n) ==
    [d EXCEPT !.attached = remove(@, n), !.timers = @ \ {n}]

UrlTokens == {SP, "a", "/", "http://", "https://", "HTTPS://"}

Strings(tokens, n) == UNION {[1..k -> tokens] : k \in 0..n}

\* the tokens the message of a navigation error is made of
MessageTokens ==
    {"net::ERR_NAME_NOT_RESOLVED", "net::ERR_CONNECTION_REFUSED", "net::ERR_CERT",
     "net::ERR_BLOCKED_BY_CLIENT", "_AUTHORITY_INVALID", "Protocol error"}

CertInvalid == Err("Error", <<"net::ERR_CERT", "_AUTHORITY_INVALID">>)

\* the errorText of a failed sub-request
SslProtocol == <<"net::ERR_", "SSL", "_PROTOCOL_ERROR">>
SslVersion == <<"net::ERR_", "SSL", "_VERSION_OR_CIPHER_MISMATCH">>
ConnectionReset == <<"net::ERR_CONNECTION_RESET">>

\* one audit explored on every input
All ==
    [bodies |-> {Undefined, Num(0), Num(42), Str(<<>>), Str(<<SP>>), Str(<<"a", SP, "b">>),
                 Str(<<"a">>), Str(<<"http://", "a">>), Str(<<"https://", "a">>),
                 Str(<<"HTTPS://", "a">>)},
     opErrors |-> {ProtocolError, ThrownString, ThrownNull},
     navErrors |-> {Err(n, m) : n \in {"Error", "TimeoutError"},
                                m \in Strings(MessageTokens, MaxCodes)},
     texts |-> {SslProtocol, SslVersion, ConnectionReset},
     responses |-> {"null", "details", "noDetails", "detailsThrow"}]

\* the validation explored on every url of up to MaxLen tokens
Every ==
    [All EXCEPT !.bodies = {Undefined, Num(0), Num(42)}
                           \cup {Str(u) : u \in Strings(UrlTokens, MaxLen)}]

\* concurrent audits explored on representative inputs
Few ==
    [bodies |-> {Num(42), Str(<<SP>>), Str(<<"https://", "a">>)},
     opErrors |-> {ProtocolError},
     navErrors |-> {CertInvalid},
     texts |-> {SslProtocol},
     responses |-> {"details"}]

----------------------------------------------------------------------------
(* Initial state: the module has been loaded, initBrowser() has been       *)
(* called and not awaited, app.listen() has been called.                   *)

Init ==
    /\ browser = "unset"
    /\ launch = "pending"
    /\ proc = "running"
    /\ browserCloseCalls = 0
    /\ sigAwait = 0
    /\ sigCount = 0
    /\ req = [r \in Requests |-> IdleReq]
    /\ extract = IdleExtract
    /\ timing = IdleTiming
    /\ router = IdleRouter
    /\ wrapper = IdleWrapper
    /\ dom = IdleDom

Globals == <<browser, launch, proc, browserCloseCalls, sigAwait, sigCount>>

Dashboard == <<wrapper, dom>>
Aux == <<extract, timing, router, Dashboard>>
Server == <<Globals, req>>

\* the latch of line 109 declared once at module level instead
Set_Shared(r, q) ==
    req' = [o \in Requests |->
              IF o = r THEN q ELSE [req[o] EXCEPT !.sslError = q.sslError]]

\* lines 74-149: url, page, sslError, response and the rest are locals of one
\* invocation; a step of invocation r writes r's locals only
Set(r, q) == req' = [req EXCEPT ![r] = q]

----------------------------------------------------------------------------
(* Browser lifecycle *)

\* line 27 resolves
LaunchResolves ==
    /\ proc = "running" /\ launch = "pending"
    /\ browser' = "set"
    /\ launch' = "resolved"
    /\ UNCHANGED <<proc, browserCloseCalls, sigAwait, sigCount, req, Aux>>

\* line 27 rejects: lines 41-44
LaunchRejects ==
    /\ proc = "running" /\ launch = "pending"
    /\ launch' = "rejected"
    /\ proc' = "exit1"
    /\ UNCHANGED <<browser, browserCloseCalls, sigAwait, sigCount, req, Aux>>

\* the handler with process.exit(0) not waiting for the close
Signal_ExitFirst ==
    /\ proc = "running" /\ sigCount < MaxSignals
    /\ sigCount' = sigCount + 1
    /\ IF browser # "unset"
       THEN /\ browserCloseCalls' = browserCloseCalls + 1
            /\ sigAwait' = sigAwait + 1
            /\ proc' = "exit0"
       ELSE /\ proc' = "exit0"
            /\ UNCHANGED <<browserCloseCalls, sigAwait>>
    /\ UNCHANGED <<browser, launch, req, Aux>>

\* lines 51-57 and 59-65, up to the await or the exit
Signal ==
    /\ proc = "running" /\ sigCount < MaxSignals
    /\ sigCount' = sigCount + 1
    /\ IF browser # "unset"
       THEN /\ browserCloseCalls' = browserCloseCalls + 1
            /\ sigAwait' = sigAwait + 1
            /\ proc' = proc
       ELSE /\ proc' = "exit0"
            /\ UNCHANGED <<browserCloseCalls, sigAwait>>
    /\ UNCHANGED <<browser, launch, req, Aux>>

\* lines 54-56: the awaited browser.close() resolves
BrowserCloseResolves ==
    /\ proc = "running" /\ sigAwait > 0
    /\ proc' = "exit0"
    /\ sigAwait' = sigAwait - 1
    /\ UNCHANGED <<browser, launch, browserCloseCalls, sigCount, req, Aux>>

\* lines 54 and 62: the awaited browser.close() rejects; the handler has no
\* catch, so process.exit(0) is not reached.  The unhandled rejection ends
\* the process with code 1 or is only logged, depending on the Node version.
BrowserCloseRejects ==
    /\ proc = "running" /\ sigAwait > 0
    /\ sigAwait' = sigAwait - 1
    /\ proc' \in {"running", "exit1"}
    /\ UNCHANGED <<browser, launch, browserCloseCalls, sigCount, req, Aux>>

----------------------------------------------------------------------------
(* POST /audit *)

\* lines 73-102
PostAudit(r, D) ==
    /\ proc = "running" /\ req[r].pc = "idle"
    /\ \E b \in D.bodies : Set(r, Entry(req[r], b, browser))
    /\ UNCHANGED <<Globals, Aux>>

\* line 102 resolves, line 105 is called
NewPageResolves(r) ==
    /\ proc = "running" /\ req[r].pc = "newPage"
    /\ Set(r, [req[r] EXCEPT !.page = "set", !.pc = "setUserAgent",
                            !.steps = Append(@, "setUserAgent")])
    /\ UNCHANGED <<Globals, Aux>>

\* line 105 resolves, line 108 is called
SetUserAgentResolves(r) ==
    /\ proc = "running" /\ req[r].pc = "setUserAgent"
    /\ Set(r, [req[r] EXCEPT !.pc = "setRequestInterception",
                            !.steps = Append(@, "setRequestInterception")])
    /\ UNCHANGED <<Globals, Aux>>

\* line 108 resolves; lines 109-121: the listener is registered and goto is
\* called.  Interception is on and no 'request' listener continues a
\* request, so the engine holds the document request (held); the run in
\* which it lets the request through is kept as the other outcome.
SetRequestInterceptionResolves(r) ==
    /\ proc = "running" /\ req[r].pc = "setRequestInterception"
    /\ \E n \in {"held", "loading"} :
          Set(r, [req[r] EXCEPT !.pc = "goto", !.listener = TRUE,
                                !.sslError = NullText, !.nav = n,
                                !.steps = @ \o <<"on", "goto">>])
    /\ UNCHANGED <<Globals, Aux>>

\* lines 110-114
requestfailed(q, errorText) ==
    IF Includes(errorText, <<"SSL">>) THEN [q EXCEPT !.sslError = errorText] ELSE q

RequestFailed(r, D) ==
    /\ proc = "running"
    /\ req[r].listener /\ ~req[r].closed
    /\ req[r].nav \in {"loading", "resolved", "failed"}
    /\ \E t \in D.texts : Set(r, requestfailed(req[r], t))
    /\ UNCHANGED <<Globals, Aux>>

\* line 118 resolves; lines 122-140
AfterGoto(q, response) ==
    [q EXCEPT !.nav = "resolved", !.response = response,
              !.sslErrorRead = q.sslError,
              !.sslStatus = sslStatus(q.url, q.sslError, response),
              !.pc = "content",
              !.steps = @ \o <<"sslStatus", "content">>]

GotoResolves(r, D) ==
    /\ proc = "running" /\ req[r].pc = "goto" /\ req[r].nav = "loading"
    /\ \E g \in D.responses : Set(r, AfterGoto(req[r], g))
    /\ UNCHANGED <<Globals, Aux>>

\* line 118 rejects with a navigation error
GotoRejects(r, D) ==
    /\ proc = "running" /\ req[r].pc = "goto" /\ req[r].nav = "loading"
    /\ \E e \in D.navErrors : Set(r, CatchBlock([req[r] EXCEPT !.nav = "failed"], e))
    /\ UNCHANGED <<Globals, Aux>>

\* the timeout swallowed: the handler goes on with lines 122-140
GotoTimesOut_Continues(r) ==
    /\ proc = "running" /\ req[r].pc = "goto"
    /\ Set(r, [AfterGoto(req[r], "null") EXCEPT !.nav = "failed"])
    /\ UNCHANGED <<Globals, Aux>>

\* line 120: the 30 s navigation timeout fires
GotoTimesOut(r) ==
    /\ proc = "running" /\ req[r].pc = "goto"
    /\ Set(r, CatchBlock([req[r] EXCEPT !.nav = "failed"], TimeoutError))
    /\ UNCHANGED <<Globals, Aux>>

\* line 140 resolves; lines 141-145
ContentResolves(r) ==
    /\ proc = "running" /\ req[r].pc = "content"
    /\ Set(r, [req[r] EXCEPT !.pc = "eval", !.steps = Append(@, "$$eval")])
    /\ UNCHANGED <<Globals, Aux>>

\* line 145 resolves; line 148 is called
EvalResolves(r) ==
    /\ proc = "running" /\ req[r].pc = "eval"
    /\ Set(r, [req[r] EXCEPT !.pc = "close", !.extracted = TRUE, !.closeCalls = @ + 1,
                            !.steps = Append(@, "close")])
    /\ UNCHANGED <<Globals, Aux>>

\* line 148 resolves; lines 151-159
CloseResolves(r) ==
    /\ proc = "running" /\ req[r].pc = "close"
    /\ Set(r, Respond([req[r] EXCEPT !.closed = TRUE, !.ssl = req[r].sslStatus], 200, TRUE, ""))
    /\ UNCHANGED <<Globals, Aux>>

\* an awaited browser operation of the try block other than goto rejects
AwaitsInTry == {"newPage", "setUserAgent", "setRequestInterception", "content", "eval", "close"}

OpRejects(r, D) ==
    /\ proc = "running" /\ req[r].pc \in AwaitsInTry
    /\ \E e \in D.opErrors : Set(r, CatchBlock(req[r], e))
    /\ UNCHANGED <<Globals, Aux>>

\* line 167 resolves, or rejects and is logged (lines 168-170); lines 173-190
CatchCloseSettles(r) ==
    /\ proc = "running" /\ req[r].pc = "catchClose"
    /\ \E ok \in BOOLEAN :
          Set(r, ClassifyAndRespond([req[r] EXCEPT !.closed = ok]))
    /\ UNCHANGED <<Globals, Aux>>

\* concurrent invocations of the handler next to the launch
Next ==
    \/ LaunchResolves
    \/ LaunchRejects
    \/ \E r \in Requests : PostAudit(r, Few)
    \/ \E r \in Requests : NewPageResolves(r)
    \/ \E r \in Requests : SetUserAgentResolves(r)
    \/ \E r \in Requests : SetRequestInterceptionResolves(r)
    \/ \E r \in Requests : RequestFailed(r, Few)
    \/ \E r \in Requests : GotoResolves(r, Few)
    \/ \E r \in Requests : GotoRejects(r, Few)
    \/ \E r \in Requests : GotoTimesOut(r)
    \/ \E r \in Requests : ContentResolves(r)
    \/ \E r \in Requests : EvalResolves(r)
    \/ \E r \in Requests : CloseResolves(r)
    \/ \E r \in Requests : OpRejects(r, Few)
    \/ \E r \in Requests : CatchCloseSettles(r)

Spec == Init /\ [][Next]_vars

\* one invocation of the handler, on every input, next to the launch and
\* the termination signals
NextAudit ==
    \/ LaunchResolves
    \/ LaunchRejects
    \/ Signal
    \/ BrowserCloseResolves
    \/ BrowserCloseRejects
    \/ PostAudit(1, All)
    \/ NewPageResolves(1)
    \/ SetUserAgentResolves(1)
    \/ SetRequestInterceptionResolves(1)
    \/ RequestFailed(1, All)
    \/ GotoResolves(1, All)
    \/ GotoRejects(1, All)
    \/ GotoTimesOut(1)
    \/ ContentResolves(1)
    \/ EvalResolves(1)
    \/ CloseResolves(1)
    \/ OpRejects(1, All)
    \/ CatchCloseSettles(1)

SpecAudit == Init /\ [][NextAudit]_vars

\* the await the handler is suspended at settles: the operation returns or
\* throws, the navigation resolves, rejects or runs into its timeout
Settles(r) ==
    \/ NewPageResolves(r)
    \/ SetUserAgentResolves(r)
    \/ SetRequestInterceptionResolves(r)
    \/ GotoResolves(r, All)
    \/ GotoRejects(r, All)
    \/ GotoTimesOut(r)
    \/ ContentResolves(r)
    \/ EvalResolves(r)
    \/ CloseResolves(r)
    \/ OpRejects(r, All)
    \/ CatchCloseSettles(r)

\* one invocation of the handler in which no await stays pending forever
\* while the process runs
SpecAuditFair == SpecAudit /\ WF_vars(Settles(1))

\* the entry of the handler, on every url
NextValidate ==
    \/ LaunchResolves
    \/ PostAudit(1, Every)

SpecValidate == Init /\ [][NextValidate]_vars

\* a client posts the normalized url of the first request as the url of a
\* second one: lines 73-102 on an already normalized url
Resubmit ==
    /\ req[1].pc # "idle" /\ req[1].body.type = "string" /\ req[1].url # <<>>
    /\ PostAudit(2, [Every EXCEPT !.bodies = {Str(req[1].url)}])

NextNormalize ==
    \/ LaunchResolves
    \/ PostAudit(1, Every)
    \/ Resubmit

SpecNormalize == Init /\ [][NextNormalize]_vars

----------------------------------------------------------------------------
(* Requests of one client through the middleware chain *)

\* one request of any method to any path is routed
Request ==
    /\ proc = "running"
    /\ \E method \in Methods, path \in Paths :
          /\ Counted(router.hits, method, path) <= RateMax + MaxOver
          /\ LET a == Route(router.hits, method, path)
             IN  router' = [hits |-> Counted(router.hits, method, path),
                            method |-> method, path |-> path,
                            status |-> a.status, success |-> a.success,
                            error |-> a.error, by |-> a.by]
    /\ UNCHANGED <<Server, extract, timing, Dashboard>>

\* line 17: the window of the limiter ends and its count starts again
WindowElapses ==
    /\ proc = "running" /\ router.hits > 0
    /\ router' = IdleRouter
    /\ UNCHANGED <<Server, extract, timing, Dashboard>>

NextRoute ==
    \/ LaunchResolves
    \/ LaunchRejects
    \/ Request
    \/ WindowElapses

SpecRoute == Init /\ [][NextRoute]_vars

----------------------------------------------------------------------------
(* Timing of one navigation against the system clock *)

\* a millisecond passes
Tick ==
    /\ timing.now < MaxMs
    /\ timing' = [timing EXCEPT !.now = @ + 1]
    /\ UNCHANGED <<Server, extract, router, Dashboard>>

\* Date.now() reads the system clock, which is not monotonic: the clock is
\* set back (time synchronisation, an operator)
ClockSetBack ==
    /\ \E t \in 0..(timing.now - 1) : timing' = [timing EXCEPT !.now = t]
    /\ UNCHANGED <<Server, extract, router, Dashboard>>

\* line 116
ReadStart ==
    /\ timing.pc = "idle"
    /\ timing' = [timing EXCEPT !.pc = "goto", !.start = timing.now]
    /\ UNCHANGED <<Server, extract, router, Dashboard>>

\* lines 121 and 155, after the navigation has resolved
ReadEnd ==
    /\ timing.pc = "goto"
    /\ \E v \in toFixed(timing.now - timing.start) :
          timing' = [timing EXCEPT !.pc = "done",
                                   !.loadTime = timing.now - timing.start,
                                   !.load_time = v]
    /\ UNCHANGED <<Server, extract, router, Dashboard>>

NextTiming ==
    \/ Tick
    \/ ClockSetBack
    \/ ReadStart
    \/ ReadEnd

SpecTiming == Init /\ [][NextTiming]_vars

----------------------------------------------------------------------------
(* Dashboard: a debounced listener, for every wait up to MaxWait *)

InitDebounce ==
    /\ browser = "unset" /\ launch = "pending" /\ proc = "running"
    /\ browserCloseCalls = 0 /\ sigAwait = 0 /\ sigCount = 0
    /\ req = [r \in Requests |-> IdleReq]
    /\ extract = IdleExtract
    /\ timing = IdleTiming
    /\ router = IdleRouter
    /\ wrapper \in {[IdleWrapper EXCEPT !.wait = w] : w \in 1..MaxWait}
    /\ dom = IdleDom

\* an input event calls the wrapper
Input ==
    /\ Len(wrapper.calls) < MaxCalls
    /\ \E args \in ArgValues : wrapper' = executedFunction(wrapper, args)
    /\ UNCHANGED <<Server, extract, timing, router, dom>>

\* a timer that is due runs its callback, on time or late
TimerFires ==
    /\ \E t \in wrapper.timers :
          /\ t.due <= wrapper.now
          /\ wrapper' = later(wrapper, t)
    /\ UNCHANGED <<Server, extract, timing, router, dom>>

Elapse ==
    /\ wrapper.now < MaxTime
    /\ wrapper' = [wrapper EXCEPT !.now = @ + 1]
    /\ UNCHANGED <<Server, extract, timing, router, dom>>

NextDebounce ==
    \/ Input
    \/ TimerFires
    \/ Elapse

SpecDebounce == InitDebounce /\ [][NextDebounce]_vars

----------------------------------------------------------------------------
(* Dashboard: notifications, for either copy of the script *)

InitNotify ==
    /\ browser = "unset" /\ launch = "pending" /\ proc = "running"
    /\ browserCloseCalls = 0 /\ sigAwait = 0 /\ sigCount = 0
    /\ req = [r \in Requests |-> IdleReq]
    /\ extract = IdleExtract
    /\ timing = IdleTiming
    /\ router = IdleRouter
    /\ wrapper = IdleWrapper
    /\ dom \in {[IdleDom EXCEPT !.file = f] : f \in Files}

ShowNotification ==
    /\ Len(dom.types) < MaxNotes
    /\ \E type \in Types : dom' = showNotification(dom, type)
    /\ UNCHANGED <<Server, extract, timing, router, wrapper>>

\* the 5 s timer of notification n expires
TimerExpires ==
    /\ \E n \in dom.timers : dom' = autoRemove(dom, n)
    /\ UNCHANGED <<Server, extract, timing, router, wrapper>>

NextNotify ==
    \/ ShowNotification
    \/ TimerExpires

SpecNotify == InitNotify /\ [][NextNotify]_vars

----------------------------------------------------------------------------
(* Email extraction on every markup of up to MaxContent tokens *)

InitEmails ==
    /\ browser = "unset" /\ launch = "pending" /\ proc = "running"
    /\ browserCloseCalls = 0 /\ sigAwait = 0 /\ sigCount = 0
    /\ req = [r \in Requests |-> IdleReq]
    /\ extract \in {[IdleExtract EXCEPT !.content = c] :
                       c \in Strings(ContentTokens, MaxContent)}
    /\ timing = IdleTiming
    /\ router = IdleRouter
    /\ wrapper = IdleWrapper
    /\ dom = IdleDom

\* lines 140-142: page.content() has resolved with the markup
Extract ==
    /\ extract.pc = "idle"
    /\ extract' = [extract EXCEPT !.pc = "done", !.emails = emails(extract.content)]
    /\ UNCHANGED <<Server, timing, router, Dashboard>>

NextEmails == Extract

SpecEmails == InitEmails /\ [][NextEmails]_vars

----------------------------------------------------------------------------
(* Page session release *)

\* C1: every invocation that acquired a page session and answered has
\* called page.close() exactly once.
C1_ClosedExactlyOnce ==
    \A r \in Requests :
        (req[r].page = "set" /\ req[r].pc = "done") => req[r].closeCalls = 1

\* C2: when navigation and extraction succeeded, the answer is the success
\* result, also when page.close() throws.
C2_CloseFailureNotPropagated ==
    \A r \in Requests :
        (req[r].extracted /\ req[r].pc = "done")
            => (req[r].status = 200 /\ req[r].success)

----------------------------------------------------------------------------
(* Responses *)

SixMessages == {MsgTimeout, MsgDomain, MsgRefused, MsgCert, MsgBlocked, MsgUnknown}

\* C3: a validated request is answered exactly once, with 200 and either
\* success or one of the six messages, and the handler never rejects.
C3_AlwaysAnswered200 ==
    \A r \in Requests :
        /\ req[r].pc # "rejected"
        /\ req[r].responses <= 1
        /\ (req[r].pc = "done" /\ req[r].acq # "none")
              => /\ req[r].responses = 1
                 /\ req[r].status = 200
                 /\ req[r].success \/ req[r].errorMessage \in SixMessages

\* C4: interception only observes: a pending navigation is never held, it
\* can still resolve before the timeout.
C4_InterceptionObservesOnly ==
    \A r \in Requests :
        req[r].pc = "goto" => ENABLED GotoResolves(r, All)

\* C5: the answer to a caught error carries the message of the first rule
\* the error matches, in the order timeout, unresolvable domain, connection
\* refused, certificate, blocked by client, unknown.
C5_FirstMatchClassification ==
    \A r \in Requests :
        LET q == req[r]
            e == q.error
            m == q.errorMessage
            timeout == e.name = "TimeoutError"
            has(c) == e.hasMessage /\ Includes(e.message, <<c>>)
            name == has("net::ERR_NAME_NOT_RESOLVED")
            refused == has("net::ERR_CONNECTION_REFUSED")
            cert == has("net::ERR_CERT")
            blocked == has("net::ERR_BLOCKED_BY_CLIENT")
        IN  /\ e.kind = "error" => q.pc # "rejected"
            /\ (e.kind # "none" /\ q.pc = "done")
                  => /\ q.status = 200 /\ ~q.success /\ q.responses = 1
                     /\ m \in SixMessages
                     /\ m = MsgTimeout <=> timeout
                     /\ m = MsgDomain <=> ~timeout /\ name
                     /\ m = MsgRefused <=> ~timeout /\ ~name /\ refused
                     /\ m = MsgCert <=> ~timeout /\ ~name /\ ~refused /\ cert
                     /\ m = MsgBlocked
                           <=> ~timeout /\ ~name /\ ~refused /\ ~cert /\ blocked

\* an error whose message names the certificate code before the refused
\* code has been answered as connection refused
C5_Witness ==
    \E r \in Requests :
        /\ req[r].pc = "done"
        /\ req[r].error = Err("Error", <<"net::ERR_CERT", "net::ERR_CONNECTION_REFUSED">>)
        /\ req[r].errorMessage = MsgRefused

----------------------------------------------------------------------------
(* Startup *)

\* C6: no request reaches browser.newPage() while the handle is unset, and
\* after a failed launch no request has been answered.
C6_NoServingBeforeLaunch ==
    /\ \A r \in Requests : req[r].acq # "unset"
    /\ launch = "rejected" => \A r \in Requests : req[r].responses = 0

----------------------------------------------------------------------------
(* Validation *)

\* the url as the claim describes its normalisation
Prefixed(str) ==
    LET t == Trim(str)
    IN  IF MatchesScheme(t) THEN t ELSE <<"https://">> \o t

\* C7 as stated: 400 'URL is required..' exactly when url is missing or
\* not a string, 400 'Invalid URL format' exactly when it is a string that
\* fails parsing after normalisation, every other input reaches the audit.
C7_ValidationAsStated ==
    \A r \in Requests :
        LET q == req[r]
            required == q.body.type # "string"
            invalid == q.body.type = "string" /\ ~URLParses(Prefixed(q.body.str))
        IN  q.pc # "idle"
              => /\ (q.status = 400 /\ q.errorMessage = MsgRequired) <=> required
                 /\ (q.status = 400 /\ q.errorMessage = MsgInvalid) <=> invalid
                 /\ q.acq # "none" <=> ~required /\ ~invalid

\* C7 amended: 400 'URL is required..' exactly when url is missing, not a
\* string or the empty string; 400 'Invalid URL format' exactly when it is
\* a non-empty string that fails parsing after normalisation; every other
\* input reaches the audit.
C7_Validation ==
    \A r \in Requests :
        LET q == req[r]
            required == q.body.type # "string" \/ q.body.str = <<>>
            invalid == ~required /\ ~URLParses(Prefixed(q.body.str))
        IN  q.pc # "idle"
              => /\ (q.status = 400 /\ q.errorMessage = MsgRequired) <=> required
                 /\ (q.status = 400 /\ q.errorMessage = MsgInvalid) <=> invalid
                 /\ q.acq # "none" <=> ~required /\ ~invalid

\* the empty string has been answered with the 'required' message
C7_Witness ==
    \E r \in Requests :
        /\ req[r].body = Str(<<>>)
        /\ req[r].status = 400
        /\ req[r].errorMessage = MsgRequired

\* C8: a request answered 400 has acquired no page and started no
\* navigation, and the step that answers it changes neither the browser
\* state nor any other request.
C8_RejectionTouchesNothing ==
    /\ [](\A r \in Requests :
            req[r].status = 400
              => /\ req[r].acq = "none"
                 /\ req[r].page = "undefined"
                 /\ req[r].nav = "none"
                 /\ req[r].closeCalls = 0
                 /\ ~req[r].listener)
    /\ [][\A r \in Requests :
            (req[r].pc = "idle" /\ req'[r].status = 400)
              => /\ UNCHANGED Globals
                 /\ \A s \in Requests \ {r} : req'[s] = req[s]]_vars

\* a request has been answered 400 next to an audit that is navigating
C8_Witness ==
    \E r, s \in Requests :
        /\ r # s
        /\ req[r].status = 400
        /\ req[s].pc = "goto"
        /\ browser = "set"

----------------------------------------------------------------------------
(* SSL *)

\* C9: once the SSL failure signal of a session is set, no later failed
\* sub-request changes it.
C9_WriteOnceLatch ==
    [][\A r \in Requests :
          (req[r].listener /\ req[r].sslError # NullText)
              => req'[r].sslError = req[r].sslError]_vars

\* C10: a success result for a url that starts with http:// has ssl false.
C10_PlainHttpNeverSsl ==
    \A r \in Requests :
        (req[r].pc = "done" /\ req[r].success /\ StartsWith(req[r].url, <<"http://">>))
            => req[r].ssl = FALSE

\* a plain-HTTP audit has succeeded although the response carried security
\* details
C10_Witness ==
    \E r \in Requests :
        /\ req[r].pc = "done" /\ req[r].success
        /\ StartsWith(req[r].url, <<"http://">>)
        /\ req[r].response = "details"
        /\ req[r].ssl = FALSE

\* C11: a success result for an https:// url whose failure signal was not
\* latched when line 130 read it has ssl true when the details are
\* non-null or reading them throws (a null response included), and ssl
\* false only when the details are read and are null.
C11_DetailsDecideSsl ==
    \A r \in Requests :
        (/\ req[r].pc = "done" /\ req[r].success
         /\ StartsWith(req[r].url, <<"https://">>)
         /\ req[r].sslErrorRead = NullText)
            => /\ req[r].response \in {"details", "detailsThrow", "null"} => req[r].ssl = TRUE
               /\ req[r].response = "noDetails" => req[r].ssl = FALSE
               /\ req[r].ssl = FALSE => req[r].response = "noDetails"

\* an https audit whose navigation resolved with a null response has
\* succeeded with ssl true
C11_Witness ==
    \E r \in Requests :
        /\ req[r].pc = "done" /\ req[r].success
        /\ StartsWith(req[r].url, <<"https://">>)
        /\ req[r].sslErrorRead = NullText
        /\ req[r].response = "null"
        /\ req[r].ssl = TRUE

\* C12: a success result for an https:// url whose failure signal was
\* latched when line 130 read it has ssl true, whatever the security
\* details are: they are not consulted.
C12_LatchAloneKeepsSsl ==
    \A r \in Requests :
        (/\ req[r].pc = "done" /\ req[r].success
         /\ StartsWith(req[r].url, <<"https://">>)
         /\ req[r].sslErrorRead # NullText)
            => req[r].ssl = TRUE

\* an https audit with a latched signal and null security details has
\* succeeded with ssl true
C12_Witness ==
    \E r \in Requests :
        /\ req[r].pc = "done" /\ req[r].success
        /\ StartsWith(req[r].url, <<"https://">>)
        /\ req[r].sslErrorRead # NullText
        /\ req[r].response = "noDetails"
        /\ req[r].ssl = TRUE

----------------------------------------------------------------------------
(* Extraction *)

\* C13: the emails of a result are the matches of the markup without
\* duplicates, in the order of their first occurrence, cut to the first 5:
\* never more than 5, never a repeated entry, empty when nothing matches.
C13_EmailsDedupedOrderedCapped ==
    extract.pc = "done" =>
        LET m == SelectSeq(extract.content, IsEmail)
            e == extract.emails
            first == {i \in 1..Len(m) : \A j \in 1..(i - 1) : m[j] # m[i]}
            kth(k) == CHOOSE i \in first : Cardinality({j \in first : j < i}) = k - 1
        IN  /\ Len(e) <= 5
            /\ \A i, j \in 1..Len(e) : i # j => e[i] # e[j]
            /\ Len(e) = (IF Cardinality(first) < 5 THEN Cardinality(first) ELSE 5)
            /\ \A k \in 1..Len(e) : e[k] = m[kth(k)]
            /\ m = <<>> => e = <<>>

\* a markup with a repeated address followed by five more distinct ones
\* has been cut to five
C13_Witness ==
    /\ extract.pc = "done"
    /\ extract.content = <<"a@b.com", "a@b.com", "c@d.org", "e@f.net", "g@h.io", "i@j.co">>
    /\ extract.emails = <<"a@b.com", "c@d.org", "e@f.net", "g@h.io", "i@j.co">>

----------------------------------------------------------------------------
(* Normalization *)

\* C14: normalizing a normalized url returns it unchanged; a url that
\* carries a scheme is returned unchanged apart from the trimming; a bare
\* host h becomes 'https://' followed by h.
C14_NormalizationIdempotent ==
    /\ \A r \in Requests :
          (req[r].body.type = "string" /\ req[r].url # <<>>)
              => LET t == Trim(req[r].body.str)
                 IN  /\ MatchesScheme(t) => req[r].url = t
                     /\ ~MatchesScheme(t) => req[r].url = <<"https://">> \o t
    /\ (req[2].pc # "idle" /\ req[2].body = Str(req[1].url))
          => req[2].url = req[1].url

\* a bare host with a leading space was normalized and its result,
\* submitted again, came back unchanged
C14_Witness ==
    /\ req[1].body = Str(<<SP, "a">>)
    /\ req[1].url = <<"https://", "a">>
    /\ req[2].body = Str(<<"https://", "a">>)
    /\ req[2].url = <<"https://", "a">>

----------------------------------------------------------------------------
(* Shutdown *)

\* C15: across any sequence of termination signals, a second one delivered
\* while the first handler awaits the close included, browser.close() is
\* invoked at most once.
C15_BrowserClosedAtMostOnce == browserCloseCalls <= 1

\* C16: a signal handler reaches process.exit(0) only after its awaited
\* browser.close() has completed when the handle is set; with the handle
\* unset it does not invoke close and exits with code 0 at once.
C16_ExitAfterRelease ==
    [][ /\ (sigCount' = sigCount + 1 /\ browser = "unset")
            => (proc' = "exit0" /\ browserCloseCalls' = browserCloseCalls)
        /\ (sigCount' = sigCount + 1 /\ browser # "unset")
            => (proc' = "running" /\ browserCloseCalls' = browserCloseCalls + 1)
        /\ (proc = "running" /\ proc' = "exit0" /\ browser # "unset")
            => (sigAwait > 0 /\ sigAwait' = sigAwait - 1
                    /\ browserCloseCalls' = browserCloseCalls) ]_vars

\* the process has exited with code 0 after a close of the launched browser
\* was awaited to its end
C16_Witness ==
    /\ proc = "exit0" /\ browser # "unset"
    /\ browserCloseCalls >= 1 /\ sigAwait < browserCloseCalls

----------------------------------------------------------------------------
(* Routing *)

\* C17 as stated: every request to /audit with a method other than POST is
\* answered with 405, success false and 'Method not allowed. Use POST.'.
C17_NonPostAlways405 ==
    (router.path = "/audit" /\ router.method # "POST")
        => /\ router.status = 405 /\ router.success = "false"
           /\ router.error = MsgMethod

\* C17: a request to /audit with a method other than POST is answered 204 by
\* the CORS middleware when it is an OPTIONS request, 429 with 'Rate limit
\* exceeded' when it is beyond the 100 requests of the window, and 405 with
\* success false and 'Method not allowed. Use POST.' otherwise; it never
\* reaches the 404 handler or the audit logic and is never left unanswered.
C17_NonPostAnswered ==
    (router.path = "/audit" /\ router.method # "POST")
        => /\ router.by \notin {"", "audit", "notFound"}
           /\ IF router.method = "OPTIONS"
              THEN router.status = 204 /\ router.by = "cors"
              ELSE IF router.hits > RateMax
              THEN /\ router.status = 429 /\ router.error = MsgRateLimit
                   /\ router.by = "limiter"
              ELSE /\ router.status = 405 /\ router.success = "false"
                   /\ router.error = MsgMethod /\ router.by = "allMethods"

\* the last request the limiter admits in a window is a DELETE to /audit,
\* answered 405
C17_Witness ==
    /\ router.path = "/audit" /\ router.method = "DELETE"
    /\ router.hits = RateMax /\ router.status = 405

----------------------------------------------------------------------------
(* Concurrent audits *)

\* C18: a step of one audit (a sub-request failure, an error, a close, any
\* other) leaves the page, the SSL latch, the ssl value, the classification
\* and the response of every other audit as they were; only the browser
\* handle is common to the audits.
C18_AuditsIsolated ==
    [][ \A r \in Requests : \A o \in Requests \ {r} :
            req'[r] # req[r] => req'[o] = req[o] ]_vars

\* two audits are in flight on their own pages; the second has been answered
\* from an unset latch while the latch of the first is set
C18_Witness ==
    /\ req[1].pc = "goto" /\ req[1].sslError # NullText
    /\ req[2].status = 200 /\ req[2].sslErrorRead = NullText
    /\ req[2].closeCalls = 1 /\ req[1].closeCalls = 0

----------------------------------------------------------------------------
(* Load time *)

\* C19: in a success result load_time is the difference of the two
\* timestamps taken around the navigation, in seconds, rounded to two
\* decimal places, and it is never negative.
C19_LoadTimeElapsedNonNegative ==
    timing.pc = "done"
        => /\ Abs(timing.load_time * 10 - timing.loadTime) <= 5
           /\ timing.load_time >= 0

----------------------------------------------------------------------------
(* Order of the steps *)

\* the operations of lines 102-151 in program order
MainOrder ==
    <<"newPage", "setUserAgent", "setRequestInterception", "on", "goto",
      "sslStatus", "content", "$$eval", "close", "respond">>

\* what the catch block of lines 161-190 adds
CatchOrders == {<<>>, <<"close">>, <<"respond">>, <<"close", "respond">>}

Navigated == SubSeq(MainOrder, 1, 5)

\* C20: the operations of one audit happen in the order acquire, configure,
\* register observer, navigate, determine SSL, extract, close, respond, cut
\* short only by a jump to release and classification; after a navigation
\* that timed out or failed, the SSL determination, the markup fetch and the
\* h1 count are not performed.
C20_StepsInOrder ==
    \A r \in Requests :
        /\ \E n \in 0..Len(MainOrder) : \E c \in CatchOrders :
              req[r].steps = SubSeq(MainOrder, 1, n) \o c
        /\ req[r].nav = "failed"
              => \E c \in CatchOrders : req[r].steps = Navigated \o c

\* a navigation timed out; the page was closed and the timeout answered
\* without any of the later steps
C20_Witness ==
    /\ req[1].nav = "failed" /\ req[1].error = TimeoutError
    /\ req[1].errorMessage = MsgTimeout
    /\ req[1].steps = Navigated \o <<"close", "respond">>

----------------------------------------------------------------------------
(* Latch after the read *)

\* the SSL determination of lines 124-137 has read the latch
LatchRead(q) == \E i \in DOMAIN q.steps : q.steps[i] = "sslStatus"

\* C21: once the SSL determination has read the latch, no requestfailed
\* event of the same page changes it during the markup fetch, the h1 count
\* or the close: the value read is the final value of the latch.
C21_NoWriteAfterRead ==
    \A r \in Requests : LatchRead(req[r]) => req[r].sslError = req[r].sslErrorRead

----------------------------------------------------------------------------
(* Scheme of the target *)

\* the https scheme as the pattern of line 86 accepts it, in either case
HttpsTokens == {"https://", "HTTPS://"}

\* C22: a url that normalization accepts as carrying an https scheme, in
\* whatever case, is an HTTPS target for the SSL determination: its success
\* result with certificate details present has ssl true.
C22_SchemeCaseConsistent ==
    \A r \in Requests :
        (/\ req[r].pc = "done" /\ req[r].success
         /\ req[r].url # <<>> /\ Head(req[r].url) \in HttpsTokens
         /\ req[r].response = "details" /\ req[r].sslErrorRead = NullText)
            => req[r].ssl = TRUE

----------------------------------------------------------------------------
(* Termination of an audit *)

\* the request has passed the validation of lines 77-98
Accepted(q) == q.pc # "idle" /\ q.status # 400

\* the request has been answered and, if it had a page, the page's close
\* has been called
Answered(q) ==
    /\ q.pc = "done" /\ q.responses = 1
    /\ q.page # "undefined" => q.closeCalls >= 1

\* C23: every accepted audit is eventually answered with its page session
\* released, given that every browser operation returns or throws and the
\* navigation settles or times out; a browser that is not launched or is
\* closed by a termination signal included.
C23_AcceptedAuditTerminates ==
    \A r \in Requests : Accepted(req[r]) ~> Answered(req[r])

----------------------------------------------------------------------------
(* Dashboard *)

\* every call of the wrapper came less than wait after the one before
Burst ==
    \A i \in 2..Len(wrapper.calls) :
        wrapper.calls[i].at - wrapper.calls[i - 1].at < wrapper.wait

\* C24: at most one timer of a wrapper is pending at any time; over a burst
\* of calls func is invoked at most once, and once the burst's timer has
\* run, exactly once, no earlier than wait after the last call and with the
\* arguments of the last call.
C24_DebounceCollapsesBurst ==
    /\ Cardinality(wrapper.timers) <= 1
    /\ Burst => Len(wrapper.invoked) <= 1
    /\ (Burst /\ wrapper.calls # <<>> /\ wrapper.timers = {})
          => LET last == wrapper.calls[Len(wrapper.calls)]
             IN  /\ Len(wrapper.invoked) = 1
                 /\ wrapper.invoked[1].args = last.args
                 /\ wrapper.invoked[1].at >= last.at + wrapper.wait
    /\ (Burst /\ wrapper.invoked # <<>>) => wrapper.timers = {}

\* two calls with different arguments, the second less than wait after the
\* first, were answered by one invocation with the second's arguments
C24_Witness ==
    /\ Len(wrapper.calls) = 2 /\ Burst
    /\ wrapper.calls[1].at < wrapper.calls[2].at
    /\ wrapper.calls[1].args # wrapper.calls[2].args
    /\ Len(wrapper.invoked) = 1
    /\ wrapper.invoked[1].args = wrapper.calls[2].args

\* C25: after any sequence of showNotification calls and timer expiries at
\* most one notification element is attached to the document.
C25_AtMostOneNotification == Len(dom.attached) <= 1

====
